---------------------------- MODULE Spec2Model ----------------------------
(***************************************************************************)
(* Model of src/src/core-js-dates-tasks.js: formatDate,                    *)
(* getCountWeekendsInMonth, getWeekNumberByDate, getNextFridayThe13th and  *)
(* getWorkSchedule.                                                        *)
(*                                                                         *)
(* A JavaScript Date is the record [day |-> days since 1970-01-01,         *)
(* sec |-> second of that day]; the host time zone is UTC, so local and    *)
(* UTC getters agree.  Timestamps are carried at second resolution (every  *)
(* input has zero milliseconds).  A 'DD-MM-YYYY' string is the tuple of    *)
(* its three numeric fields <<DD, MM, YYYY>>, the result of split('-').    *)
(***************************************************************************)
EXTENDS Integers, Sequences, FiniteSets, TLC

VARIABLES fn, args, result, pc

vars == <<fn, args, result, pc>>

-----------------------------------------------------------------------------
(* Bounds of the explored inputs.                                          *)

MaxSpan == 14
MaxWork == 3
MaxOff == 3
FridaySpan == 60
WeekendYears == 28
WeekYears == 9
FormatDays == 2

-----------------------------------------------------------------------------
(* The host's Date type.                                                   *)

SecPerDay == 86400

\* Math.ceil(n / d) for d > 0
Ceil(n, d) == -((-n) \div d)

\* day number of the civil date y-m-d (proleptic Gregorian calendar)
DaysFromCivil(y, m, d) ==
  LET yy  == IF m <= 2 THEN y - 1 ELSE y
      era == yy \div 400
      yoe == yy - era * 400
      mp  == IF m > 2 THEN m - 3 ELSE m + 9
      doy == (153 * mp + 2) \div 5 + d - 1
      doe == yoe * 365 + yoe \div 4 - yoe \div 100 + doy
  IN  era * 146097 + doe - 719468

\* civil date of a day number
CivilFromDays(z) ==
  LET zz  == z + 719468
      era == zz \div 146097
      doe == zz - era * 146097
      yoe == (doe - doe \div 1460 + doe \div 36524 - doe \div 146096) \div 365
      doy == doe - (365 * yoe + yoe \div 4 - yoe \div 100)
      mp  == (5 * doy + 2) \div 153
      d   == doy - (153 * mp + 2) \div 5 + 1
      m   == IF mp < 10 THEN mp + 3 ELSE mp - 9
      y   == yoe + era * 400 + (IF m <= 2 THEN 1 ELSE 0)
  IN  [y |-> y, m |-> m, d |-> d]

\* new Date(year, monthIndex, day = 1): out-of-range fields are normalised
NewDate(year, monthIndex, day) ==
  [day |-> DaysFromCivil(year + monthIndex \div 12, (monthIndex % 12) + 1, 1)
             + day - 1,
   sec |-> 0]

getDate(date) == CivilFromDays(date.day).d
getMonth(date) == CivilFromDays(date.day).m - 1
getFullYear(date) == CivilFromDays(date.day).y
\* 0 = Sunday .. 6 = Saturday; 1970-01-01 was a Thursday
getDay(date) == (date.day + 4) % 7
getHours(date) == date.sec \div 3600
getMinutes(date) == (date.sec \div 60) % 60
getSeconds(date) == date.sec % 60

\* date.setDate(n): day n of the date's month, normalised, time of day kept
setDate(date, n) == [date EXCEPT !.day = date.day - getDate(date) + n]

\* a - b for two Dates, in seconds
DateDiff(a, b) == (a.day - b.day) * SecPerDay + (a.sec - b.sec)

-----------------------------------------------------------------------------
(* getWorkSchedule                                                         *)

Reverse(s) == [k \in 1..Len(s) |-> s[Len(s) + 1 - k]]

\* Date.parse of the joined 'YYYY-MM-DD' string: midnight UTC of that day
DateParse(ymd) == [day |-> DaysFromCivil(ymd[1], ymd[2], ymd[3]), sec |-> 0]

transformDate(date) == <<getDate(date), getMonth(date) + 1, getFullYear(date)>>

\* the inner for loop: b = 1 .. countWorkDays
RECURSIVE WorkBlock(_, _, _, _)
WorkBlock(b, countWorkDays, currDate, scheduale) ==
  IF b <= countWorkDays
    THEN LET date == transformDate(currDate)
             next == setDate(currDate, getDate(currDate) + 1)
         IN  WorkBlock(b + 1, countWorkDays, next, Append(scheduale, date))
    ELSE [currDate |-> currDate, scheduale |-> scheduale]

\* the outer for loop.  With countWorkDays + countOffDays = 0 neither i nor
\* currDate changes in an iteration, so the loop never exits.
RECURSIVE ScheduleLoop(_, _, _, _, _, _)
ScheduleLoop(i, totalDayCount, countWorkDays, countOffDays, currDate, scheduale) ==
  IF i <= totalDayCount
    THEN IF countWorkDays + countOffDays <= 0
           THEN [status |-> "hang", currDate |-> currDate,
                 scheduale |-> scheduale]
           ELSE LET blk == WorkBlock(1, countWorkDays, currDate, scheduale)
                    cur == setDate(blk.currDate,
                                   getDate(blk.currDate) + countOffDays)
                IN  ScheduleLoop(i + countWorkDays + countOffDays,
                                 totalDayCount, countWorkDays, countOffDays,
                                 cur, blk.scheduale)
    ELSE [status |-> "exit", currDate |-> currDate, scheduale |-> scheduale]

\* FinalCheck without its push: the end date is never appended
FinalCheckSkipped(currDate, newEndDateObj, scheduale) == scheduale

\* FinalCheck appending the end date whenever the cursor reached or passed it
FinalCheckAtOrPastEnd(currDate, newEndDateObj, scheduale) ==
  IF currDate.day >= newEndDateObj.day
    THEN Append(scheduale, transformDate(newEndDateObj))
    ELSE scheduale

\* the if statement after the loop
FinalCheck(currDate, newEndDateObj, scheduale) ==
  IF currDate = newEndDateObj
    THEN Append(scheduale, transformDate(currDate))
    ELSE scheduale

getWorkSchedule(period, countWorkDays, countOffDays) ==
  LET startDate == Reverse(period.start)
      endDate == Reverse(period.end)
      newStartDateObj == DateParse(startDate)
      newEndDateObj == DateParse(endDate)
      dateDifferTimestamp == DateDiff(newEndDateObj, newStartDateObj)
      totalDayCount == Ceil(dateDifferTimestamp, SecPerDay)
      loop == ScheduleLoop(1, totalDayCount, countWorkDays, countOffDays,
                           newStartDateObj, <<>>)
  IN  IF loop.status = "hang"
        THEN [status |-> "hang", value |-> <<>>]
        ELSE [status |-> "returned",
              value |-> FinalCheck(loop.currDate, newEndDateObj,
                                   loop.scheduale)]

-----------------------------------------------------------------------------
(* formatDate                                                              *)

\* new Date(isoString) for 'YYYY-MM-DDTHH:mm:ss.000Z', given by its fields
ParseISO(iso) ==
  [day |-> DaysFromCivil(iso.year, iso.month, iso.day),
   sec |-> iso.hours * 3600 + iso.minutes * 60 + iso.seconds]

\* String(n).padStart(2, '0')
padStart2(str) == IF Len(str) < 2 THEN "0" \o str ELSE str

\* hours = hours > 12 ? (hours % 13) + 1 : hours
HourField(hours) == IF hours > 12 THEN (hours % 13) + 1 ELSE hours

formatDate(date) ==
  LET newDate == ParseISO(date)
      year == ToString(getFullYear(newDate))
      month == ToString(getMonth(newDate) + 1)
      day == ToString(getDate(newDate))
      hours == getHours(newDate)
      minutes == padStart2(ToString(getMinutes(newDate)))
      seconds == padStart2(ToString(getSeconds(newDate)))
      timePostfix == IF hours < 12 THEN "AM" ELSE "PM"
  IN  month \o "/" \o day \o "/" \o year \o ", " \o ToString(HourField(hours))
        \o ":" \o minutes \o ":" \o seconds \o " " \o timePostfix

-----------------------------------------------------------------------------
(* getCountWeekendsInMonth                                                 *)

WeekendCountStart == 8
WeekendLoopStart == 29

\* the for loop: i = 29 .. dayInMonth, date advancing from the 1st
RECURSIVE WeekendLoop(_, _, _, _)
WeekendLoop(i, dayInMonth, date, weekendCount) ==
  IF i <= dayInMonth
    THEN LET currentDayNumber == getDay(date)
             count == IF currentDayNumber = 0 \/ currentDayNumber = 6
                        THEN weekendCount + 1 ELSE weekendCount
         IN  WeekendLoop(i + 1, dayInMonth,
                         setDate(date, getDate(date) + 1), count)
    ELSE weekendCount

\* getCountWeekendsInMonth with the loop starting one day late
getCountWeekendsInMonthFrom30(month, year) ==
  LET date == NewDate(year, month - 1, 1)
      dateLastDay == NewDate(year, month, 0)
      dayInMonth == getDate(dateLastDay)
  IN  WeekendLoop(WeekendLoopStart + 1, dayInMonth, date, WeekendCountStart)

getCountWeekendsInMonth(month, year) ==
  LET date == NewDate(year, month - 1, 1)
      dateLastDay == NewDate(year, month, 0)
      dayInMonth == getDate(dateLastDay)
  IN  WeekendLoop(WeekendLoopStart, dayInMonth, date, WeekendCountStart)

-----------------------------------------------------------------------------
(* getWeekNumberByDate                                                     *)

currectDayNumber == [k \in 0..6 |-> IF k = 0 THEN 7 ELSE k]

getWeekNumberByDate(date) ==
  LET year == getFullYear(date)
      yearStart == NewDate(year, 0, 1)
      firstDay == currectDayNumber[getDay(yearStart)]
      dayInFirstWeek == 7 - firstDay + 1
      timestamp == DateDiff(date, yearStart)
      dayCount == Ceil(timestamp, SecPerDay)
  IN  IF dayInFirstWeek = 7
        THEN Ceil(dayCount, 7)
        ELSE Ceil(dayCount - dayInFirstWeek, 7) + 1

-----------------------------------------------------------------------------
(* getNextFridayThe13th                                                    *)

null == -1

\* while (date.getDay() !== 5) date.setDate(date.getDate() + 1)
RECURSIVE ToFriday(_)
ToFriday(date) ==
  IF getDay(date) # 5
    THEN ToFriday(setDate(date, getDate(date) + 1))
    ELSE date

\* while (dayNumber !== 13) { date.setDate(date.getDate() + 7); ... }
RECURSIVE To13th(_, _)
To13th(date, dayNumber) ==
  IF dayNumber # 13
    THEN LET next == setDate(date, getDate(date) + 7)
         IN  To13th(next, getDate(next))
    ELSE date

getNextFridayThe13th(date) == To13th(ToFriday(date), null)

-----------------------------------------------------------------------------
(* The calls explored.                                                     *)

ScheduleStarts == {<<1, 1, 2024>>, <<27, 2, 2024>>, <<29, 12, 2023>>}

PeriodEnds(start) ==
  {transformDate([day |-> DateParse(Reverse(start)).day + n, sec |-> 0]) :
     n \in -1..MaxSpan}

ScheduleArgs ==
  UNION {{[period |-> [start |-> s, end |-> e], countWorkDays |-> w,
           countOffDays |-> o] :
            e \in PeriodEnds(s), w \in 0..MaxWork, o \in 0..MaxOff} :
         s \in ScheduleStarts}

FormatArgs ==
  {[year |-> 2024, month |-> 2, day |-> 1 + n, hours |-> h, minutes |-> m,
    seconds |-> sc] :
     n \in 0..FormatDays - 1, h \in 0..23, m \in {0, 20, 59}, sc \in {0, 9}}

WeekendArgs ==
  {[month |-> m, year |-> 2000 + y] : m \in 1..12, y \in 0..WeekendYears - 1}

\* every day of the years 2016 .. 2016 + WeekYears - 1, at midnight and noon
WeekArgs ==
  {[day |-> d, sec |-> sc] :
     d \in NewDate(2016, 0, 1).day .. NewDate(2016 + WeekYears, 0, 0).day,
     sc \in {0, 43200}}

FridayArgs ==
  {NewDate(2024, 0, 13), NewDate(2023, 1, 1)}
    \cup {NewDate(2024, 7, 1 + n) : n \in 0..FridaySpan}

Init ==
  /\ pc = "ready"
  /\ result = "none"
  /\ \/ fn = "getWorkSchedule" /\ args \in ScheduleArgs
     \/ fn = "formatDate" /\ args \in FormatArgs
     \/ fn = "getCountWeekendsInMonth" /\ args \in WeekendArgs
     \/ fn = "getWeekNumberByDate" /\ args \in WeekArgs
     \/ fn = "getNextFridayThe13th" /\ args \in FridayArgs

CallGetWorkSchedule ==
  /\ pc = "ready"
  /\ fn = "getWorkSchedule"
  /\ result' = getWorkSchedule(args.period, args.countWorkDays,
                               args.countOffDays)
  /\ pc' = "done"
  /\ UNCHANGED <<fn, args>>

CallFormatDate ==
  /\ pc = "ready"
  /\ fn = "formatDate"
  /\ result' = formatDate(args)
  /\ pc' = "done"
  /\ UNCHANGED <<fn, args>>

CallGetCountWeekendsInMonth ==
  /\ pc = "ready"
  /\ fn = "getCountWeekendsInMonth"
  /\ result' = getCountWeekendsInMonth(args.month, args.year)
  /\ pc' = "done"
  /\ UNCHANGED <<fn, args>>

CallGetWeekNumberByDate ==
  /\ pc = "ready"
  /\ fn = "getWeekNumberByDate"
  /\ result' = getWeekNumberByDate(args)
  /\ pc' = "done"
  /\ UNCHANGED <<fn, args>>

CallGetNextFridayThe13th ==
  /\ pc = "ready"
  /\ fn = "getNextFridayThe13th"
  /\ result' = getNextFridayThe13th(args)
  /\ pc' = "done"
  /\ UNCHANGED <<fn, args>>

Next ==
  \/ CallGetWorkSchedule
  \/ CallFormatDate
  \/ CallGetCountWeekendsInMonth
  \/ CallGetWeekNumberByDate
  \/ CallGetNextFridayThe13th

Spec == Init /\ [][Next]_vars


-----------------------------------------------------------------------------
(* Properties of getWorkSchedule.                                          *)

\* day number of a 'DD-MM-YYYY' value
DayOf(ddmmyyyy) == DaysFromCivil(ddmmyyyy[3], ddmmyyyy[2], ddmmyyyy[1])

ScheduleDone == pc = "done" /\ fn = "getWorkSchedule"

StartDay == DayOf(args.period.start)
EndDay == DayOf(args.period.end)

ValidScheduleArgs ==
  /\ args.countWorkDays >= 1
  /\ args.countOffDays >= 1
  /\ StartDay <= EndDay

\* the days of [start, end] that fall in a work block of the cadence
WorkDays ==
  {d \in StartDay..EndDay :
     (d - StartDay) % (args.countWorkDays + args.countOffDays)
        < args.countWorkDays}

RECURSIVE Ascending(_)
Ascending(S) ==
  IF S = {} THEN <<>>
  ELSE LET least == CHOOSE d \in S : \A e \in S : d <= e
       IN  <<least>> \o Ascending(S \ {least})

\* C1: for valid arguments every returned date lies in [period.start,
\* period.end]; nothing after period.end is emitted.
C1_DatesWithinPeriod ==
  (ScheduleDone /\ ValidScheduleArgs) =>
    /\ result.status = "returned"
    /\ \A k \in 1..Len(result.value) :
         DayOf(result.value[k]) \in StartDay..EndDay

\* C2: for valid arguments the returned array is exactly the ascending list
\* of the dates of [start, end] whose offset from start, modulo
\* countWorkDays + countOffDays, is below countWorkDays.
C2_ExactCadence ==
  (ScheduleDone /\ ValidScheduleArgs) =>
    /\ result.status = "returned"
    /\ [k \in 1..Len(result.value) |-> DayOf(result.value[k])]
         = Ascending(WorkDays)

\* C3: with countWorkDays < 1, countOffDays < 1 or start after end the call
\* fails with InvalidArgument and returns nothing.
C3_InvalidArgumentRaised ==
  (ScheduleDone /\ ~ValidScheduleArgs) => result.status = "InvalidArgument"

\* C4: when period.start equals period.end and both counts are at least 1,
\* the result is exactly one entry, the start date.
C4_SingleDayPeriod ==
  (ScheduleDone /\ ValidScheduleArgs /\ StartDay = EndDay) =>
    result = [status |-> "returned", value |-> <<args.period.start>>]

C4_Witness ==
  /\ ScheduleDone
  /\ args.period.start = args.period.end
  /\ args.countWorkDays = 2
  /\ args.countOffDays = 3
  /\ result.status = "returned"
  /\ Len(result.value) = 1

\* C5: for valid arguments the returned dates are strictly increasing by
\* calendar day (so no date repeats), the entry appended by the final
\* check included.
C5_StrictlyIncreasing ==
  (ScheduleDone /\ ValidScheduleArgs) =>
    /\ result.status = "returned"
    /\ \A k \in 1..Len(result.value) - 1 :
         DayOf(result.value[k]) < DayOf(result.value[k + 1])

\* the loop emitted dates and the final check then appended the end date
C5_Witness ==
  /\ ScheduleDone
  /\ ValidScheduleArgs
  /\ StartDay < EndDay
  /\ (EndDay - StartDay) % (args.countWorkDays + args.countOffDays) = 0
  /\ result.status = "returned"
  /\ Len(result.value) >= 3
  /\ result.value[Len(result.value)] = args.period.end

-----------------------------------------------------------------------------
(* Properties of getNextFridayThe13th.                                     *)

IsFridayThe13th(d) == (d + 4) % 7 = 5 /\ CivilFromDays(d).d = 13

\* C6: the result is the earliest date strictly after the input that is a
\* Friday and the 13th of its month; none in between is skipped.  (Two
\* Friday the 13ths are never more than 14 months, under 430 days, apart.)
C6_EarliestFridayThe13th ==
  (pc = "done" /\ fn = "getNextFridayThe13th") =>
    /\ result.day > args.day
    /\ IsFridayThe13th(result.day)
    /\ \A d \in args.day + 1 .. args.day + 430 :
         IsFridayThe13th(d) => result.day <= d

-----------------------------------------------------------------------------
(* Properties of getCountWeekendsInMonth.                                  *)

WeekendDone == pc = "done" /\ fn = "getCountWeekendsInMonth"

\* day numbers of the month's days
MonthDays(month, year) ==
  LET first == DaysFromCivil(year, month, 1)
      next == IF month = 12 THEN DaysFromCivil(year + 1, 1, 1)
                            ELSE DaysFromCivil(year, month + 1, 1)
  IN  first .. next - 1

IsWeekend(d) == (d + 4) % 7 \in {0, 6}

\* C7: for every month the result is exactly the number of Saturdays and
\* Sundays in it.
C7_WeekendCount ==
  WeekendDone =>
    result = Cardinality({d \in MonthDays(args.month, args.year) :
                            IsWeekend(d)})

\* a 31-day month whose 29th, 30th and 31st are Friday, Saturday, Sunday
C7_Witness ==
  /\ WeekendDone
  /\ Cardinality(MonthDays(args.month, args.year)) = 31
  /\ (DaysFromCivil(args.year, args.month, 1) + 4) % 7 = 5
  /\ result = 10

-----------------------------------------------------------------------------
(* Properties of formatDate.                                               *)

\* the 12-hour clock: 12 at midnight and noon
Hour12(h) == IF h % 12 = 0 THEN 12 ELSE h % 12

TwoDigits(n) == IF n < 10 THEN "0" \o ToString(n) ELSE ToString(n)

\* C8: for every UTC hour h the text is 'M/D/YYYY, h:mm:ss AM/PM' with the
\* hour field 12 for h = 0 or 12, h for 1..11, h - 12 for 13..23, and AM
\* exactly when h < 12.
C8_TwelveHourClock ==
  (pc = "done" /\ fn = "formatDate") =>
    result = ToString(args.month) \o "/" \o ToString(args.day) \o "/"
               \o ToString(args.year) \o ", " \o ToString(Hour12(args.hours))
               \o ":" \o TwoDigits(args.minutes) \o ":"
               \o TwoDigits(args.seconds) \o " "
               \o (IF args.hours < 12 THEN "AM" ELSE "PM")

-----------------------------------------------------------------------------
(* Properties of getWeekNumberByDate.                                      *)

\* C9: for a calendar date (midnight) the result is 1 plus the number of
\* Mondays after 1 January and not after the date.
C9_MondayBasedWeek ==
  (pc = "done" /\ fn = "getWeekNumberByDate" /\ args.sec = 0) =>
    LET jan1 == DaysFromCivil(CivilFromDays(args.day).y, 1, 1)
    IN  result = 1 + Cardinality({d \in jan1 + 1 .. args.day :
                                    (d + 4) % 7 = 1})

=============================================================================
